---------------------------- MODULE Spec2Model ----------------------------
(***************************************************************************)
(* morgul: correction of raw Jungfrau frames of a single module            *)
(* (src/morgul/morgul.c, the version with embiggen, lines 215-476).        *)
(*                                                                         *)
(*   main -> setup(gain file) -> pedestal(first data file)                 *)
(*        -> work(data file, skip, offset) for every data file -> teardown *)
(*                                                                         *)
(* Scaling.  The detector is 2 x 4 ASICs of 256 x 256 pixels and each      *)
(* pedestal run is 1000 frames.  The model keeps the structure of the code *)
(* (eight interior copies, three pedestal loops, fixed divisor) with the   *)
(* ASIC edge TILE and the run length PedFrames as bounds; every literal of *)
(* the source that is derived from 256 or 1000 is derived from TILE or     *)
(* PedFrames here (258 = TILE+2, 1030 = 4*TILE+6, 265740 = 258*1030 ...).   *)
(*                                                                         *)
(* Numbers.  Raw samples keep their 16 bits (mode in the top two, ADC in   *)
(* the low 14) and corrected values their 32 bits.  A double is modelled   *)
(* as an exact rational <<n, d>>, d > 0; gains and the photon energy are   *)
(* drawn from small integers.  The conversion double -> unsigned int is    *)
(* truncation toward zero where C defines it and depends on the build      *)
(* where C leaves it undefined (see DoubleToU32).                          *)
(***************************************************************************)
EXTENDS Integers, Sequences, FiniteSets, TLC

\* ------------------------------------------------------------------ bounds
\* ASIC edge in pixels (256 in the source).
TILE == 3
\* frames per pedestal run, and the divisor of the mean (1000 in the source).
PedFrames == 2

\* ------------------------------------------------------- program constants
HeaderBytes == 48
LowMask == 16383
ModeShift == 16384

NY == 2 * TILE
NX == 4 * TILE
NPix == NY * NX
\* the expanded image: 514 x 1030 in the source
EY == NY + 2
EX == NX + 6
Pix == 0 .. (NPix - 1)
Cells == 0 .. (EY * EX - 1)
FrameBytes == HeaderBytes + 2 * NY * NX

\* ------------------------------------------------------------ the inputs
\* A raw sample: 2 bits of gain mode above 14 bits of ADC.
Sample(m, adc) == m * ModeShift + adc

\* Two frame contents.  Over the pixels every pair of modes (mode in an "A"
\* frame, mode in a "B" frame) occurs, with ADC values above and below the
\* pedestals they give rise to.
Patterns == {"A", "B"}
FrameAt(pat, p) ==
  IF pat = "A" THEN Sample(p % 4, 20 + 7 * (p % 5))
  ELSE Sample((p \div 4) % 4, 2 + 11 * (p % 3))

\* The k-th double of a gain file.  "G": three blocks with different values
\* per block and per pixel (G1 and G2 of a Jungfrau are negative); "Z": a file
\* with zero and negative entries.
GainAt(pat, k) ==
  LET b == k \div NPix
      p == k % NPix
  IN IF pat = "G"
       THEN CASE b = 0 -> 1 + (p % 2)
              [] b = 1 -> 0 - (1 + (p % 3))
              [] OTHER -> 0 - (4 + (p % 2))
       ELSE (k % 3) - 1

\* atof on the texts the model passes as argv[1]: the leading number, 0 when
\* there is none.
EnergyTexts == {"2", "1", "0", "-1", "abc"}
atof(s) ==
  CASE s = "2" -> 2
    [] s = "1" -> 1
    [] s = "0" -> 0
    [] s = "-1" -> 0 - 1
    [] OTHER -> 0

\* Contents of memory returned by malloc and never written.
Garbage16 == {0, Sample(3, 1)}
GarbageDbl == {0, 7}
\* An array cell that has not been given a value yet.
Indet == 0 - 1

\* How the machine code of the build converts a double that unsigned int
\* cannot hold (the conversion is undefined in C): "wrap" keeps the low 32
\* bits of the 64-bit truncation (x86-64 cvttsd2si), "saturate" clamps to
\* [0, 2^32-1] and maps NaN to 0 (AArch64 fcvtzu).
Builds == {"wrap", "saturate"}

\* A data file: its complete frames (48-byte header + NY*NX samples each), and
\* an optional truncated last frame that holds its header and the first
\* tail samples of frame content tailpat.
TailSamples == NX + 1
DataFile(fr, tl) == [frames |-> fr, tail |-> tl, tailpat |-> "B"]
SeqsUpTo(S, n) == UNION {[1 .. k -> S] : k \in 0 .. n}
FileBytes(f) ==
  Len(f.frames) * FrameBytes
    + (IF f.tail > 0 THEN HeaderBytes + 2 * f.tail ELSE 0)

GainFile(ex, pat, n) == [exists |-> ex, pat |-> pat, len |-> n]

\* ------------------------------------------------------------- rationals
Rat(n, d) == <<n, d>>
RatEq(a, b) == a[1] * b[2] = b[1] * a[2]
\* r += s for an integer s
RatAddInt(r, s) == <<r[1] + s * r[2], r[2]>>
\* r /= k for an integer k > 0
RatDivInt(r, k) == <<r[1], r[2] * k>>
Abs(x) == IF x < 0 THEN 0 - x ELSE x
Sign(x) == IF x < 0 THEN 0 - 1 ELSE 1
\* n / d truncated toward zero, d # 0
TruncQuot(n, d) == Sign(n) * Sign(d) * (Abs(n) \div Abs(d))

\* ------------------------------------------------------ unsigned 32 bits
\* An unsigned int is written <<high 16 bits, low 16 bits>> (the model
\* checker's own integers are 32 bits, signed).
Word16 == 4 * ModeShift
\* the low 32 bits of the two's complement of the integer t
U32(t) == <<(t \div Word16) % Word16, t % Word16>>
\* 0xffffffff
MaxU32 == <<Word16 - 1, Word16 - 1>>

VARIABLES
  argv,        \* the command line: [energy, gain, data] (text, file, files)
  build,       \* the conversion the build compiled (see Builds)
  pc,          \* where main is
  energy_keV,
  g0, g1, g2,  \* gain maps, Pix -> integer
  p0, p1, p2,  \* pedestals, Pix -> rational
  mask,        \* Pix -> 0 / 1
  pixels,      \* the frame buffer of pedestal() or of work()
  i,           \* the frame loop counter of pedestal() or of work()
  j,           \* main's argv index of the data file
  offset,      \* main's running output frame offset
  skip, nn,    \* work's parameters
  scratch,     \* work's compact corrected frame
  output,      \* work's expanded frame
  written,     \* the files written: output index -> expanded image
  \* the test pattern programs (test_pattern.c and its revision with edge copies)
  prog,        \* which revision runs
  tpc,         \* where its main is
  tp_in,       \* the global in: the compact test pattern, Pix -> integer
  tp_out,      \* the global out: the expanded image, Cells -> integer
  tp_k,        \* the counter of main's clearing loop
  tp_file      \* test_pattern.dat: what fwrite wrote

morgul == <<argv, build, pc, energy_keV, g0, g1, g2, p0, p1, p2, mask, pixels,
            i, j, offset, skip, nn, scratch, output, written>>
pattern == <<prog, tpc, tp_in, tp_out, tp_k, tp_file>>
vars == <<morgul, pattern>>

argc == 3 + Len(argv.data)


\* ------------------------------------------------- stdio, as the code uses it
\* fseek(fin, 48, SEEK_CUR); fread(pixels, 2, NY*NX, fin) for frame idx of
\* file f (idx counted from 0): a complete frame fills the buffer; at and
\* after the end of the file fread stores what is there (the truncated frame,
\* or nothing) and leaves the rest of the buffer as it was. gv is what a cell
\* that was never written turns out to hold.
FrameItems(f, idx) ==
  IF idx < Len(f.frames) THEN NPix
  ELSE IF idx = Len(f.frames) THEN f.tail
  ELSE 0

\* The read when every run starts again at the beginning of the file.
fread_frame_rewound(f, idx, buf, gv) ==
  LET at == idx % PedFrames
      n == FrameItems(f, at)
      pat == IF at < Len(f.frames) THEN f.frames[at + 1] ELSE f.tailpat
  IN [p \in Pix |->
        IF p < n THEN FrameAt(pat, p)
        ELSE IF buf[p] = Indet THEN gv ELSE buf[p]]

fread_frame(f, idx, buf, gv) ==
  LET n == FrameItems(f, idx)
      pat == IF idx < Len(f.frames) THEN f.frames[idx + 1] ELSE f.tailpat
  IN [p \in Pix |->
        IF p < n THEN FrameAt(pat, p)
        ELSE IF buf[p] = Indet THEN gv ELSE buf[p]]

\* What the cells of buf that reading frame idx leaves unwritten can hold.
Unwritten(f, idx, buf) ==
  IF \E p \in Pix : p >= FrameItems(f, idx) /\ buf[p] = Indet
    THEN Garbage16 ELSE {0}

\* fread(g, 8, NY*NX, fin) for block b of the gain file into a fresh malloc.
fread_gain(gf, b, gv) ==
  [p \in Pix |-> IF b * NPix + p < gf.len THEN GainAt(gf.pat, b * NPix + p)
                 ELSE gv]

\* ------------------------------------------------------------- embiggen
\* The copies with the source offset of the last tile column mistyped.
EmbiggenCopies_786(ii, jj) ==
  { <<ii * EX + jj + tc * (TILE + 2) + tr * ((TILE + 2) * EX),
      ii * NX + jj + (IF tc = 3 THEN tc * TILE + 1 ELSE tc * TILE)
        + tr * (TILE * NX)>> :
      tc \in 0 .. 3, tr \in 0 .. 1 }

\* The eight interior copies of one (i, j): <<index in out, index in in>>.
EmbiggenCopies(ii, jj) ==
  { <<ii * EX + jj + tc * (TILE + 2) + tr * ((TILE + 2) * EX),
      ii * NX + jj + tc * TILE + tr * (TILE * NX)>> :
      tc \in 0 .. 3, tr \in 0 .. 1 }

EmbiggenWrites ==
  UNION { EmbiggenCopies(ii, jj) : ii \in 1 .. (TILE - 2), jj \in 1 .. (TILE - 2) }

\* The copies without the memset: a cell no copy writes keeps what the
\* buffer held.
embiggen_nomemset(in) ==
  [k \in Cells |->
     IF \E w \in EmbiggenWrites : w[1] = k
       THEN in[(CHOOSE w \in EmbiggenWrites : w[1] = k)[2]]
       ELSE output[k]]

\* The copies, and the last column of every tile halved into its own cell and
\* the inserted cell to its right, whatever it holds.
embiggen_halving(in) ==
  [k \in Cells |->
     IF \E w \in EmbiggenWrites : w[1] = k
       THEN in[(CHOOSE w \in EmbiggenWrites : w[1] = k)[2]]
       ELSE LET r == (k \div EX) % (TILE + 2)
                c == (k % EX) % (TILE + 2)
                tr == (k \div EX) \div (TILE + 2)
                tc == (k % EX) \div (TILE + 2)
                v == in[(tr * TILE + r) * NX + tc * TILE + TILE - 1]
            IN IF r \in 1 .. (TILE - 2) /\ c \in {TILE - 1, TILE} /\ tc < 3
                 THEN <<v[1] \div 2, (v[2] \div 2) + (v[1] % 2) * (Word16 \div 2)>>
                 ELSE MaxU32]

\* memset(out, 0xff, ...) and then the copies.
embiggen(in) ==
  [k \in Cells |->
     IF \E w \in EmbiggenWrites : w[1] = k
       THEN in[(CHOOSE w \in EmbiggenWrites : w[1] = k)[2]]
       ELSE MaxU32]

\* ------------------------------------------------- the per-pixel correction
\* (unsigned int)(((double)num / den) / (g * e)), den > 0.  The quotients of
\* the model stay far below 2^31 in size, so the other undefined conversion,
\* of 2^32 or more, does not occur.
DoubleToU32(num, den, g, e, b) ==
  IF g * e = 0
    THEN \* x / +-0.0 is an infinity, 0 / 0 a NaN: the conversion is undefined
         IF b = "wrap" THEN U32(0)
         ELSE IF num # 0 /\ Sign(num) * Sign(g) * Sign(e) > 0 THEN MaxU32
         ELSE U32(0)
    ELSE LET t == TruncQuot(num, den * g * e)
         IN IF t >= 0 THEN U32(t)
            ELSE \* -1 or below: undefined in C
                 IF b = "wrap" THEN U32(t) ELSE U32(0)

\* switch (mode): which pedestal and which gain
PedestalFor(mode, p) ==
  CASE mode = 3 -> p2[p]
    [] mode = 1 -> p1[p]
    [] OTHER -> p0[p]

\* a slip of the switch: case 3 reads the medium gain map
GainFor_case3_g1(mode, p) ==
  CASE mode = 3 -> g1[p]
    [] mode = 1 -> g1[p]
    [] OTHER -> g0[p]

GainFor(mode, p) ==
  CASE mode = 3 -> g2[p]
    [] mode = 1 -> g1[p]
    [] OTHER -> g0[p]

\* pixels[p] *= mask[p], on an unsigned short
MaskedSample(raw, p) == (raw * mask[p]) % Word16

\* The value the switch stores in scratch[p].
Corrected(px, p) ==
  LET mode == px \div ModeShift
      pixel == px % (LowMask + 1)
      ped == PedestalFor(mode, p)
  IN DoubleToU32(pixel * ped[2] - ped[1], ped[2], GainFor(mode, p),
                 energy_keV, build)

\* The override as a store that an unmasked pixel skips and a masked pixel
\* misses: the masked pixel keeps what the scratch buffer held.
MaskOverride_stale(v, p) == IF mask[p] = 0 THEN scratch[p] ELSE v

\* if (mask[p] == 0) scratch[p] = 0xffffffff
MaskOverride(v, p) == IF mask[p] = 0 THEN MaxU32 ELSE v

WorkPixel(raw, p) == MaskOverride(Corrected(MaskedSample(raw, p), p), p)

\* ----------------------------------------------------------------- main
NoArray == [p \in Pix |-> Indet]
NoScratch == [p \in Pix |-> <<Indet, Indet>>]
NoImage == [k \in Cells |-> <<Indet, Indet>>]
NoFiles == [k \in {} |-> NoImage]

\* The command lines the model runs.
\*  - a first data file alone, with a complete gain file and energy 2: a low
\*    gain and a medium gain run of "A" frames followed by "B" frames, a high
\*    gain run of any frames and one more frame, and every file that is the
\*    beginning of such a file (a short dark run);
\*  - the short ones of these files ending in a truncated frame;
\*  - a few data files with every energy text and every gain file
\*    (complete, short, empty, missing);
\*  - two data files; no data file at all;
\*  - a second data file that ends in a truncated frame; a first data file
\*    shorter than the frames work() skips, followed by a second data file.
FullGain == GainFile(TRUE, "G", 3 * NPix)
GainFiles ==
  { FullGain, GainFile(TRUE, "Z", 3 * NPix), GainFile(TRUE, "G", 2 * NPix + NX),
    GainFile(TRUE, "G", 0), GainFile(FALSE, "G", 0) }
Darks(pat) == [k \in 1 .. (3 * PedFrames) |-> pat]
FewFiles ==
  { DataFile(Darks("A") \o <<"B">>, 0), DataFile(Darks("B") \o <<"A">>, 0) }
ForcedRun(a) == [k \in 1 .. PedFrames |-> IF k <= a THEN "A" ELSE "B"]
LongFiles ==
  { ForcedRun(a) \o ForcedRun(b) \o hi \o <<x>> :
      a \in 0 .. PedFrames, b \in 0 .. PedFrames,
      hi \in [1 .. PedFrames -> Patterns], x \in Patterns }
FirstFiles ==
  { SubSeq(fr, 1, n) : fr \in LongFiles, n \in 0 .. (3 * PedFrames + 1) }
CommandLines ==
  { [energy |-> "2", gain |-> FullGain, data |-> <<DataFile(fr, 0)>>] :
      fr \in FirstFiles }
  \cup
  { [energy |-> "2", gain |-> FullGain, data |-> <<DataFile(fr, TailSamples)>>] :
      fr \in { f \in FirstFiles : Len(f) < 3 * PedFrames } }
  \cup
  { [energy |-> e, gain |-> gf, data |-> <<f>>] :
      e \in EnergyTexts, gf \in GainFiles, f \in FewFiles }
  \cup
  { [energy |-> "1", gain |-> FullGain, data |-> <<f, DataFile(fr, 0)>>] :
      f \in FewFiles, fr \in SeqsUpTo(Patterns, 2) }
  \cup
  { [energy |-> "2", gain |-> FullGain, data |-> << >>] }
  \cup
  { [energy |-> "1", gain |-> FullGain,
     data |-> <<f, DataFile(<<"A">>, TailSamples)>>] : f \in FewFiles }
  \cup
  { [energy |-> "1", gain |-> FullGain,
     data |-> <<DataFile(SubSeq(Darks("A"), 1, n), 0), DataFile(<<"B", "A">>, 0)>>] :
      n \in {0, 2 * PedFrames - 1} }

\* no test pattern program runs
PatternOff ==
  /\ prog = "none" /\ tpc = "off" /\ tp_in = << >> /\ tp_out = << >>
  /\ tp_k = 0 /\ tp_file = << >>

Init ==
  /\ argv \in CommandLines
  /\ build \in Builds
  /\ pc = "main"
  /\ energy_keV = 0
  /\ g0 = NoArray /\ g1 = NoArray /\ g2 = NoArray
  /\ p0 = NoArray /\ p1 = NoArray /\ p2 = NoArray
  /\ mask = NoArray
  /\ pixels = NoArray
  /\ i = 0 /\ j = 0 /\ offset = 0 /\ skip = 0 /\ nn = 0
  /\ scratch = NoScratch
  /\ output = NoImage
  /\ written = NoFiles
  /\ PatternOff

\* main, up to the call of setup: the usage check and atof.
main_usage ==
  /\ pc = "main"
  /\ argc < 4
  /\ pc' = "exit1"
  /\ UNCHANGED <<argv, build, energy_keV, g0, g1, g2, p0, p1, p2, mask, pixels,
                 i, j, offset, skip, nn, scratch, output, written, pattern>>

main_args ==
  /\ pc = "main"
  /\ ~(argc < 4)
  /\ energy_keV' = atof(argv.energy)
  /\ pc' = "setup"
  /\ UNCHANGED <<argv, build, g0, g1, g2, p0, p1, p2, mask, pixels,
                 i, j, offset, skip, nn, scratch, output, written, pattern>>

\* setup(gain): three freads into fresh mallocs; no return value is checked.
setup ==
  /\ pc = "setup"
  /\ argv.gain.exists
  /\ \E gv \in GarbageDbl :
       /\ g0' = fread_gain(argv.gain, 0, gv)
       /\ g1' = fread_gain(argv.gain, 1, gv)
       /\ g2' = fread_gain(argv.gain, 2, gv)
  /\ pc' = "pedestal"
  /\ UNCHANGED <<argv, build, energy_keV, p0, p1, p2, mask, pixels,
                 i, j, offset, skip, nn, scratch, output, written, pattern>>

\* setup(gain) when fopen returned NULL: fread and fclose on a null FILE* are
\* undefined; the process dies of it, or the library rejects the calls and
\* the maps keep what malloc gave them.
setup_nofile ==
  /\ pc = "setup"
  /\ ~argv.gain.exists
  /\ \/ /\ pc' = "crash"
        /\ UNCHANGED <<g0, g1, g2>>
     \/ /\ pc' = "pedestal"
        /\ \E gv \in GarbageDbl :
             /\ g0' = [p \in Pix |-> gv]
             /\ g1' = [p \in Pix |-> gv]
             /\ g2' = [p \in Pix |-> gv]
  /\ UNCHANGED <<argv, build, energy_keV, p0, p1, p2, mask, pixels,
                 i, j, offset, skip, nn, scratch, output, written, pattern>>

\* ------------------------------------------------------------- pedestal
\* pedestal(data), up to the first loop: mallocs and the clearing loop.
pedestal_clear ==
  /\ pc = "pedestal"
  /\ p0' = [p \in Pix |-> Rat(0, 1)]
  /\ p1' = [p \in Pix |-> Rat(0, 1)]
  /\ p2' = [p \in Pix |-> Rat(0, 1)]
  /\ mask' = [p \in Pix |-> 1]
  /\ pixels' = NoArray
  /\ i' = 0
  /\ pc' = "ped_low"
  /\ UNCHANGED <<argv, build, energy_keV, g0, g1, g2,
                 j, offset, skip, nn, scratch, output, written, pattern>>

\* a slip of the sum: the mode bits are not masked off
AccumulateLow_unmasked(acc, buf) ==
  [p \in Pix |-> RatAddInt(acc[p], buf[p])]

\* p[p] += (double)(pixels[p] & low)
AccumulateLow(acc, buf) ==
  [p \in Pix |-> RatAddInt(acc[p], buf[p] % (LowMask + 1))]

\* p[p] /= 1000
Mean(acc) == [p \in Pix |-> RatDivInt(acc[p], PedFrames)]

\* if (pixels[p] & 0xc000) { mask[p] = 0; p0[p] = 0; } else p0[p] += pixels[p]
HighBits(s) == s \div ModeShift
\* slips of the high gain sum: = for +=, and a flagged frame that is left
\* out of the sum without resetting it
AccumulateHigh_assign(acc, buf) ==
  [p \in Pix |-> IF HighBits(buf[p]) # 0 THEN Rat(0, 1)
                 ELSE Rat(buf[p], 1)]
AccumulateHigh_noreset(acc, buf) ==
  [p \in Pix |-> IF HighBits(buf[p]) # 0 THEN acc[p]
                 ELSE RatAddInt(acc[p], buf[p])]

AccumulateHigh(acc, buf) ==
  [p \in Pix |-> IF HighBits(buf[p]) # 0 THEN Rat(0, 1)
                 ELSE RatAddInt(acc[p], buf[p])]
MaskHigh(m, buf) ==
  [p \in Pix |-> IF HighBits(buf[p]) # 0 THEN 0 ELSE m[p]]

\* one frame of the low gain loop; the frames read so far sit at
\* 0 .. i-1 of the first data file
pedestal_low ==
  /\ pc = "ped_low"
  /\ i < PedFrames
  /\ \E gv \in Unwritten(argv.data[1], i, pixels) :
       LET buf == fread_frame(argv.data[1], i, pixels, gv)
       IN /\ pixels' = buf
          /\ p2' = AccumulateLow(p2, buf)
  /\ i' = i + 1
  /\ UNCHANGED <<argv, build, pc, energy_keV, g0, g1, g2, p0, p1, mask,
                 j, offset, skip, nn, scratch, output, written, pattern>>

pedestal_low_mean ==
  /\ pc = "ped_low"
  /\ ~(i < PedFrames)
  /\ p2' = Mean(p2)
  /\ i' = 0
  /\ pc' = "ped_med"
  /\ UNCHANGED <<argv, build, energy_keV, g0, g1, g2, p0, p1, mask, pixels,
                 j, offset, skip, nn, scratch, output, written, pattern>>

pedestal_medium ==
  /\ pc = "ped_med"
  /\ i < PedFrames
  /\ \E gv \in Unwritten(argv.data[1], PedFrames + i, pixels) :
       LET buf == fread_frame(argv.data[1], PedFrames + i, pixels, gv)
       IN /\ pixels' = buf
          /\ p1' = AccumulateLow(p1, buf)
  /\ i' = i + 1
  /\ UNCHANGED <<argv, build, pc, energy_keV, g0, g1, g2, p0, p2, mask,
                 j, offset, skip, nn, scratch, output, written, pattern>>

pedestal_medium_mean ==
  /\ pc = "ped_med"
  /\ ~(i < PedFrames)
  /\ p1' = Mean(p1)
  /\ i' = 0
  /\ pc' = "ped_high"
  /\ UNCHANGED <<argv, build, energy_keV, g0, g1, g2, p0, p2, mask, pixels,
                 j, offset, skip, nn, scratch, output, written, pattern>>

pedestal_high ==
  /\ pc = "ped_high"
  /\ i < PedFrames
  /\ \E gv \in Unwritten(argv.data[1], 2 * PedFrames + i, pixels) :
       LET buf == fread_frame(argv.data[1], 2 * PedFrames + i, pixels, gv)
       IN /\ pixels' = buf
          /\ p0' = AccumulateHigh(p0, buf)
          /\ mask' = MaskHigh(mask, buf)
  /\ i' = i + 1
  /\ UNCHANGED <<argv, build, pc, energy_keV, g0, g1, g2, p1, p2,
                 j, offset, skip, nn, scratch, output, written, pattern>>

\* the last division, free(pixels), the return to main and main's
\* int offset = 0; j = 3
pedestal_high_mean ==
  /\ pc = "ped_high"
  /\ ~(i < PedFrames)
  /\ p0' = Mean(p0)
  /\ pixels' = NoArray
  /\ i' = 0
  /\ j' = 3
  /\ offset' = 0
  /\ pc' = "files"
  /\ UNCHANGED <<argv, build, energy_keV, g0, g1, g2, p1, p2, mask,
                 skip, nn, scratch, output, written, pattern>>

\* ----------------------------------------------------------------- work
\* the data file argv[j] of main's loop
FileOf(jj) == argv.data[jj - 2]
\* The skip when it covers the high gain run as well.
SkipOf_3000(jj) == IF jj = 3 THEN 3 * PedFrames ELSE 0
\* int skip = j == 3 ? 2000 : 0
SkipOf(jj) == IF jj = 3 THEN 2 * PedFrames ELSE 0
\* int nn = finfo.st_size / (48 + 2 * 512 * 1024)
FramesIn(f) == FileBytes(f) \div FrameBytes

\* work(data, skip, offset), up to the frame loop: stat, fopen, the mallocs
\* and the seeks over the warm-up frames.
work_open ==
  /\ pc = "files"
  /\ j < argc
  /\ skip' = SkipOf(j)
  /\ nn' = FramesIn(FileOf(j))
  /\ pixels' = NoArray
  /\ scratch' = NoScratch
  /\ output' = NoImage
  /\ i' = SkipOf(j)
  /\ pc' = "work"
  /\ UNCHANGED <<argv, build, energy_keV, g0, g1, g2, p0, p1, p2, mask,
                 j, offset, written, pattern>>

\* sprintf(result, "frame_%05d.raw", i - skip + offset)
OutputIndex(ii, sk, off) == ii - sk + off

\* one frame, with the masking statement's operands exchanged
\* (mask[p] *= pixels[p])
work_frame_maskwrite ==
  /\ pc = "work"
  /\ i < nn
  /\ \E gv \in Unwritten(FileOf(j), i, pixels) :
       LET buf == fread_frame(FileOf(j), i, pixels, gv)
           out == [p \in Pix |-> WorkPixel(buf[p], p)]
           img == embiggen(out)
       IN /\ pixels' = buf
          /\ mask' = [p \in Pix |-> (mask[p] * buf[p]) % Word16]
          /\ scratch' = out
          /\ output' = img
          /\ written' = (OutputIndex(i, skip, offset) :> img) @@ written
  /\ i' = i + 1
  /\ UNCHANGED <<argv, build, pc, energy_keV, g0, g1, g2, p0, p1, p2,
                 j, offset, skip, nn, pattern>>

\* one frame: read, correct every pixel, embiggen, write the frame file
work_frame ==
  /\ pc = "work"
  /\ i < nn
  /\ \E gv \in Unwritten(FileOf(j), i, pixels) :
       LET buf == fread_frame(FileOf(j), i, pixels, gv)
           out == [p \in Pix |-> WorkPixel(buf[p], p)]
           img == embiggen(out)
       IN /\ pixels' = [p \in Pix |-> MaskedSample(buf[p], p)]
          /\ scratch' = out
          /\ output' = img
          /\ written' = (OutputIndex(i, skip, offset) :> img) @@ written
  /\ i' = i + 1
  /\ UNCHANGED <<argv, build, pc, energy_keV, g0, g1, g2, p0, p1, p2, mask,
                 j, offset, skip, nn, pattern>>

\* free(output); free(pixels); return nn - skip; and main's
\* offset += work(...); j++
work_return ==
  /\ pc = "work"
  /\ ~(i < nn)
  /\ offset' = offset + (nn - skip)
  /\ j' = j + 1
  /\ pixels' = NoArray
  /\ output' = NoImage
  /\ pc' = "files"
  /\ UNCHANGED <<argv, build, energy_keV, g0, g1, g2, p0, p1, p2, mask,
                 i, skip, nn, scratch, written, pattern>>

\* teardown(); return 0
teardown ==
  /\ pc = "files"
  /\ ~(j < argc)
  /\ pc' = "exit0"
  /\ UNCHANGED <<argv, build, energy_keV, g0, g1, g2, p0, p1, p2, mask, pixels,
                 i, j, offset, skip, nn, scratch, output, written, pattern>>

Next ==
  \/ main_usage
  \/ main_args
  \/ setup
  \/ setup_nofile
  \/ pedestal_clear
  \/ pedestal_low
  \/ pedestal_low_mean
  \/ pedestal_medium
  \/ pedestal_medium_mean
  \/ pedestal_high
  \/ pedestal_high_mean
  \/ work_open
  \/ work_frame
  \/ work_return
  \/ teardown

Spec == Init /\ [][Next]_vars

\* ==========================================================================
\* The test pattern programs: test_pattern.c and the revision of it that
\* also copies the sensor's edge rows and columns.  Each builds the compact test pattern, clears out, calls
\* its own embiggen and writes out to test_pattern.dat.  Their images hold
\* small unsigned ints, kept as integers.
\* ==========================================================================
Programs == { "test_pattern.c", "edge revision" }

\* setup(): in[k] = 1 everywhere,
Fill == [p \in Pix |-> 1]
\* in[255 * NX + j] *= 2; in[256 * NX + j] *= 2 for every column j,
DoubleRows(a) ==
  [p \in Pix |-> IF p \div NX \in { TILE - 1, TILE } THEN a[p] * 2 ELSE a[p]]
\* in[j * NX + c] *= 2 for c = 255, 256, 511, 512, 767, 768 and every row j.
DoubleCols(a) ==
  [p \in Pix |->
     IF p % NX \in { TILE - 1, TILE, 2 * TILE - 1, 2 * TILE, 3 * TILE - 1, 3 * TILE }
       THEN a[p] * 2 ELSE a[p]]
TestPattern == DoubleCols(DoubleRows(Fill))

\* The assignments out[a] = in[b] of the edge revision's two edge loops, as
\* pairs <<a, b>>.  Columns 0 and 1023, for i: rows 0 .. 254 go to the same
\* rows, rows 257 .. 511 to rows 258 .. 512.
EdgeColumnCopies(ii) ==
  { <<ii * EX, ii * NX>>,
    <<ii * EX + (EX - 1), ii * NX + (NX - 1)>>,
    <<(ii + TILE + 2) * EX, (ii + TILE + 1) * NX>>,
    <<(ii + TILE + 2) * EX + (EX - 1), (ii + TILE + 1) * NX + (NX - 1)>> }
\* The source offset the row loop uses for the fourth tile: 786 where the
\* interior copies have 768, which takes in[] past the end of its row for the
\* last values of j.
RowOffset786 == 3 * TILE + 2
\* Rows 0 and 511, for j: row 0 to row 0, row 511 to row 513.
EdgeRowCopies(jj) ==
  { <<jj, jj>>,
    <<jj + (TILE + 2), jj + TILE>>,
    <<jj + 2 * (TILE + 2), jj + 2 * TILE>>,
    <<jj + 3 * (TILE + 2), jj + RowOffset786>>,
    <<jj + EX * (EY - 1), jj + (NY - 1) * NX>>,
    <<jj + (TILE + 2) + EX * (EY - 1), jj + TILE + (NY - 1) * NX>>,
    <<jj + 2 * (TILE + 2) + EX * (EY - 1), jj + 2 * TILE + (NY - 1) * NX>>,
    <<jj + 3 * (TILE + 2) + EX * (EY - 1), jj + RowOffset786 + (NY - 1) * NX>> }
EdgeWrites ==
  UNION { EdgeColumnCopies(ii) : ii \in 0 .. (TILE - 2) }
  \cup UNION { EdgeRowCopies(jj) : jj \in 1 .. (TILE - 2) }

\* What a read of in[b] gives: past the end of the array (b >= NY * NX) the
\* read is undefined and gives the value gv.
ReadIn(a, b, gv) == IF b \in DOMAIN a THEN a[b] ELSE gv
\* what lies behind the array when such a read returns
GarbageInt == { 0, 1, 9 }
OutOfBounds(writes) == \E w \in writes : w[2] \notin Pix

\* out after the assignments `writes` (no two of them to the same cell)
Assign(writes, a, old, gv) ==
  [k \in Cells |->
     IF \E w \in writes : w[1] = k
       THEN ReadIn(a, (CHOOSE w \in writes : w[1] = k)[2], gv)
       ELSE old[k]]

\* embiggen of test_pattern.c: the interior copies, nothing else
embiggen_test_pattern(a, old) == Assign(EmbiggenWrites, a, old, 0)
\* embiggen of the edge revision: the interior copies, the straight copies
\* of the edge columns and rows; the split of the doubled pixels is two
\* comments without code
embiggen_edges(a, old, gv) == Assign(EmbiggenWrites \cup EdgeWrites, a, old, gv)

NoCells == [k \in Cells |-> Indet]

PatternInit ==
  /\ prog \in Programs
  /\ tpc = "main"
  /\ tp_in = << >> /\ tp_out = << >>
  /\ tp_k = 0
  /\ tp_file = << >>
  /\ argv = [energy |-> "2", gain |-> FullGain, data |-> << >>]
  /\ build = "wrap"
  /\ pc = "off"
  /\ energy_keV = 0
  /\ g0 = NoArray /\ g1 = NoArray /\ g2 = NoArray
  /\ p0 = NoArray /\ p1 = NoArray /\ p2 = NoArray
  /\ mask = NoArray
  /\ pixels = NoArray
  /\ i = 0 /\ j = 0 /\ offset = 0 /\ skip = 0 /\ nn = 0
  /\ scratch = NoScratch
  /\ output = NoImage
  /\ written = NoFiles

\* setup(): the two mallocs and the test pattern; fopen
tp_setup ==
  /\ tpc = "main"
  /\ tp_in' = TestPattern
  /\ tp_out' = NoCells
  /\ tp_k' = 0
  /\ tpc' = "clear"
  /\ UNCHANGED <<prog, tp_file, morgul>>

\* one assignment of main's loop: out[i * 1030 + j] = 0
tp_clear ==
  /\ tpc = "clear"
  /\ tp_k < EY * EX
  /\ tp_out' = [tp_out EXCEPT ![tp_k] = 0]
  /\ tp_k' = tp_k + 1
  /\ UNCHANGED <<prog, tpc, tp_in, tp_file, morgul>>

\* embiggen(in, out) of test_pattern.c
tp_embiggen ==
  /\ tpc = "clear"
  /\ ~(tp_k < EY * EX)
  /\ prog = "test_pattern.c"
  /\ tp_out' = embiggen_test_pattern(tp_in, tp_out)
  /\ tpc' = "fwrite"
  /\ UNCHANGED <<prog, tp_in, tp_k, tp_file, morgul>>

\* embiggen(in, out) of the edge revision: its reads past the end of in
\* give whatever lies there, or end the process
tp_embiggen_edges ==
  /\ tpc = "clear"
  /\ ~(tp_k < EY * EX)
  /\ prog = "edge revision"
  /\ \/ /\ \E gv \in GarbageInt : tp_out' = embiggen_edges(tp_in, tp_out, gv)
        /\ tpc' = "fwrite"
     \/ /\ OutOfBounds(EdgeWrites)
        /\ tpc' = "crash"
        /\ UNCHANGED tp_out
  /\ UNCHANGED <<prog, tp_in, tp_k, tp_file, morgul>>

\* fwrite(out, ...); fclose; teardown(); return 0
tp_fwrite ==
  /\ tpc = "fwrite"
  /\ tp_file' = tp_out
  /\ tpc' = "exit0"
  /\ UNCHANGED <<prog, tp_in, tp_out, tp_k, morgul>>

PatternNext ==
  \/ tp_setup
  \/ tp_clear
  \/ tp_embiggen
  \/ tp_embiggen_edges
  \/ tp_fwrite

PatternSpec == PatternInit /\ [][PatternNext]_vars

\* ==========================================================================
\* The properties.  They are stated on the inputs (the files of the command
\* line) and on the program's arrays, not on the operators above.
\* ==========================================================================
FirstFile == argv.data[1]
\* sample p of complete frame k (from 0) of data file f
RawOf(f, k, p) == FrameAt(f.frames[k + 1], p)
ModeOf(s) == s \div ModeShift
AdcOf(s) == s % ModeShift
\* the sum over frames from .. to of file f of h(sample of pixel p)
RECURSIVE SumFrames(_, _, _, _, _)
SumFrames(h(_), f, from, to, p) ==
  IF from > to THEN 0
  ELSE h(RawOf(f, from, p)) + SumFrames(h, f, from + 1, to, p)
Whole(s) == s

\* pedestal() has returned
Calibrated == pc \in {"files", "work", "exit0"}
\* the first data file holds the three dark runs
DarkRunsComplete == argc >= 4 /\ Len(FirstFile.frames) >= 3 * PedFrames
DarkRunsShort == argc >= 4 /\ Len(FirstFile.frames) < 3 * PedFrames
\* work() has corrected frame i - 1 of the file argv[j] into scratch
FrameDone == pc = "work" /\ i > skip
DoneRaw(p) == RawOf(FileOf(j), i - 1, p)

\* Which table the documentation gives a mode: 3 low gain (2), 1 medium gain
\* (1), 0 and 2 high gain (0).
TableOf(m) == IF m = 3 THEN 2 ELSE IF m = 1 THEN 1 ELSE 0
PedTable(t) == IF t = 2 THEN p2 ELSE IF t = 1 THEN p1 ELSE p0
GainTable(t) == IF t = 2 THEN g2 ELSE IF t = 1 THEN g1 ELSE g0

\* C1: for every frame work() has processed and every pixel p, scratch[p] is
\* 0xFFFFFFFF if and only if mask[p] is false.
C1_SentinelIffMasked ==
  FrameDone => \A p \in Pix : (scratch[p] = MaxU32) <=> (mask[p] = 0)

\* C2: for every unmasked pixel the value work() stores is
\* (adc - pedestal[m][p]) / (gain[m][p] * energy_keV), truncated toward zero
\* and reduced modulo 2^32 (wherever that quotient exists).
C2_TruncatedModulo ==
  FrameDone =>
    \A p \in Pix :
      LET m == ModeOf(DoneRaw(p))
          ped == PedTable(TableOf(m))[p]
          gain == GainTable(TableOf(m))[p]
      IN (mask[p] = 1 /\ gain * energy_keV # 0) =>
           scratch[p] =
             U32(TruncQuot(AdcOf(DoneRaw(p)) * ped[2] - ped[1],
                           ped[2] * gain * energy_keV))

\* C3: the pedestal and the gain work() uses for a pixel are those of the
\* table its own top two bits in that frame select (3 -> p2, g2; 1 -> p1, g1;
\* 0 and 2 -> p0, g0), and g0, g1, g2 are the first, second and third block of
\* the gain file.
C3_TablesByMode ==
  /\ (pc \notin {"main", "setup", "exit1", "crash"} /\ argv.gain.exists) =>
       \A p \in Pix : \A b \in 0 .. 2 :
         b * NPix + p < argv.gain.len =>
           GainTable(b)[p] = GainAt(argv.gain.pat, b * NPix + p)
  /\ FrameDone =>
       \A p \in Pix :
         LET m == ModeOf(DoneRaw(p))
             ped == PedTable(TableOf(m))[p]
             gain == GainTable(TableOf(m))[p]
         IN mask[p] = 1 =>
              scratch[p] =
                DoubleToU32(AdcOf(DoneRaw(p)) * ped[2] - ped[1], ped[2], gain,
                            energy_keV, build)

\* C3 happens: a frame is done in which unmasked pixels of all four modes
\* occur, read with a complete gain file and a positive energy.
C3_Witness ==
  /\ FrameDone
  /\ argv.gain = FullGain
  /\ energy_keV > 0
  /\ \A m \in 0 .. 3 :
       \E p \in Pix : mask[p] = 1 /\ ModeOf(DoneRaw(p)) = m
                        /\ scratch[p] # U32(0)

\* C4: after pedestal(), p2 and p1 of every pixel are the arithmetic mean,
\* over the PedFrames frames of their run, of the pixel's low 14 bits.
C4_ForcedRunMeans ==
  (Calibrated /\ DarkRunsComplete) =>
    \A p \in Pix :
      /\ RatEq(p2[p], Rat(SumFrames(AdcOf, FirstFile, 0, PedFrames - 1, p),
                          PedFrames))
      /\ RatEq(p1[p], Rat(SumFrames(AdcOf, FirstFile, PedFrames,
                                    2 * PedFrames - 1, p),
                          PedFrames))

\* C4 happens: pedestal() has returned on complete dark runs in which some
\* pixel had mode bits set in a low gain and in a medium gain frame, and the
\* two pedestals of some pixel differ.
C4_Witness ==
  /\ Calibrated
  /\ DarkRunsComplete
  /\ \E p \in Pix :
       /\ ModeOf(RawOf(FirstFile, 0, p)) # 0
       /\ ModeOf(RawOf(FirstFile, PedFrames, p)) # 0
       /\ p2[p][1] > 0
       /\ ~RatEq(p1[p], p2[p])

\* every frame of the high gain run shows pixel p with zero top bits
NeverFlagged(p) ==
  \A k \in 0 .. (PedFrames - 1) : ModeOf(RawOf(FirstFile, 2 * PedFrames + k, p)) = 0
\* frame k of the high gain run is the last that shows pixel p with top bits set
LastFlagged(p, k) ==
  /\ ModeOf(RawOf(FirstFile, 2 * PedFrames + k, p)) # 0
  /\ \A n \in (k + 1) .. (PedFrames - 1) :
       ModeOf(RawOf(FirstFile, 2 * PedFrames + n, p)) = 0

\* C5: after pedestal(), a pixel whose top two bits are zero in every frame
\* of the high gain run is unmasked and its p0 is the mean of its raw values.
C5_CleanPixelMean ==
  (Calibrated /\ DarkRunsComplete) =>
    \A p \in Pix :
      NeverFlagged(p) =>
        /\ mask[p] = 1
        /\ RatEq(p0[p], Rat(SumFrames(Whole, FirstFile, 2 * PedFrames,
                                      3 * PedFrames - 1, p),
                            PedFrames))

\* C5 happens: such a pixel exists, with different raw values in the run.
C5_Witness ==
  /\ Calibrated
  /\ DarkRunsComplete
  /\ \E p \in Pix :
       /\ NeverFlagged(p)
       /\ RawOf(FirstFile, 2 * PedFrames, p) # RawOf(FirstFile, 2 * PedFrames + 1, p)
       /\ p0[p][1] > 0

\* C6: after pedestal(), a pixel whose top two bits are set on high gain
\* frame k and on no later frame is masked, and its p0 is the sum of its raw
\* values over the frames after k, divided by PedFrames.
C6_ResetThenFixedDivisor ==
  (Calibrated /\ DarkRunsComplete) =>
    \A p \in Pix : \A k \in 0 .. (PedFrames - 1) :
      LastFlagged(p, k) =>
        /\ mask[p] = 0
        /\ RatEq(p0[p], Rat(SumFrames(Whole, FirstFile, 2 * PedFrames + k + 1,
                                      3 * PedFrames - 1, p),
                            PedFrames))

\* C6 happens: one pixel is flagged on the first frame only and keeps what
\* the later frames add, another is flagged after frames that added to its
\* sum and loses them.
C6_Witness ==
  /\ Calibrated
  /\ DarkRunsComplete
  /\ \E p \in Pix : LastFlagged(p, 0) /\ mask[p] = 0 /\ p0[p][1] > 0
  /\ \E p \in Pix : \E k \in 1 .. (PedFrames - 1) :
       /\ LastFlagged(p, k)
       /\ ModeOf(RawOf(FirstFile, 2 * PedFrames, p)) = 0
       /\ RawOf(FirstFile, 2 * PedFrames, p) > 0

\* pixel p is seen with top bits set in a frame of the high gain run that the
\* first data file holds (its truncated last frame included)
FlaggedInHighRun(p) ==
  \E k \in 0 .. (PedFrames - 1) :
    LET n == 2 * PedFrames + k
    IN \/ n < Len(FirstFile.frames) /\ ModeOf(RawOf(FirstFile, n, p)) # 0
       \/ /\ n = Len(FirstFile.frames)
          /\ p < FirstFile.tail
          /\ ModeOf(FrameAt(FirstFile.tailpat, p)) # 0

\* C7: at the end of calibration mask[p] is false exactly when pixel p showed
\* non-zero top two bits in a frame of the high gain run.
C7_MaskedIffFlaggedInHighRun ==
  Calibrated => \A p \in Pix : (mask[p] = 0) <=> FlaggedInHighRun(p)

\* C8: on a first data file that holds fewer than 3 * PedFrames complete
\* frames pedestal() does not complete.
C8_ShortRunIsAnError ==
  DarkRunsShort => ~Calibrated

\* C9: with a gain file that is missing or holds fewer than 3 * NY * NX
\* values no pedestal is computed, no frame is corrected, nothing is written.
GainFileBad == ~argv.gain.exists \/ argv.gain.len < 3 * NPix
C9_BadGainFileAborts ==
  (argc >= 4 /\ GainFileBad) =>
    /\ pc \in {"main", "setup", "crash"}
    /\ written = NoFiles

\* C10: with a photon energy of zero or less the run fails before a frame is
\* processed: no frame is corrected or written and main does not return 0.
C10_BadEnergyFails ==
  (argc >= 4 /\ atof(argv.energy) <= 0) =>
    /\ ~FrameDone
    /\ written = NoFiles
    /\ pc # "exit0"

\* data file argv[jj] ends in a truncated frame that lies where the frame
\* loop of work() reads (at or after the frames it skips)
TruncatedInWork(jj) ==
  /\ FileOf(jj).tail > 0
  /\ FramesIn(FileOf(jj)) >= SkipOf(jj)

\* C11: when a data file ends in a frame that is cut short where work() reads,
\* the run stops with an error (main does not return 0), and every frame
\* work() has written out was read whole from the file.
C11_TruncatedFrameIsAnError ==
  /\ (argc >= 4 /\ \E jj \in 3 .. (argc - 1) : TruncatedInWork(jj)) => pc # "exit0"
  /\ FrameDone => i - 1 < Len(FileOf(j).frames)

\* ------------------------------------------------------ the expanded image
\* Tiles, and the cell of row r, column c of an image with rows of length w.
TileRows == 0 .. 1
TileCols == 0 .. 3
Interior == 1 .. (TILE - 2)
At(r, c, w) == r * w + c
\* tile-local (r, c) of tile (tr, tc) in the compact and the expanded image
CompactAt(tr, tc, r, c) == At(tr * TILE + r, tc * TILE + c, NX)
ExpandedAt(tr, tc, r, c) == At(tr * (TILE + 2) + r, tc * (TILE + 2) + c, EX)
InteriorPix ==
  { CompactAt(tr, tc, r, c) : tr \in TileRows, tc \in TileCols,
                              r \in Interior, c \in Interior }

\* C12: embiggen copies every interior pixel verbatim: for every tile
\* (tr, tc) and tile-local r, c in 1 .. TILE - 2, the expanded image (rows of
\* length NX + 6) holds at row tr * (TILE + 2) + r, column tc * (TILE + 2) + c
\* what the compact image (rows of length NX) holds at row tr * TILE + r,
\* column tc * TILE + c.
C12_InteriorVerbatim ==
  FrameDone =>
    \A tr \in TileRows : \A tc \in TileCols : \A r \in Interior : \A c \in Interior :
      output[ExpandedAt(tr, tc, r, c)] = scratch[CompactAt(tr, tc, r, c)]

\* C12 happens: a frame is expanded whose interior pixels hold counts, not
\* all the same, and masked pixels.
C12_Witness ==
  /\ FrameDone
  /\ \E p \in InteriorPix : \E q \in InteriorPix :
       /\ scratch[p] # MaxU32 /\ scratch[q] # MaxU32 /\ scratch[p] # scratch[q]
  /\ \E p \in InteriorPix : scratch[p] = MaxU32


\* The cells of the expanded image: (row, column) of cell k, the rows and
\* columns inserted between the tiles, and the cells the interior pixels go to.
RowOf(k) == k \div EX
ColOf(k) == k % EX
GapRows == { TILE, TILE + 1 }
GapCols == UNION { { tc * (TILE + 2) + TILE, tc * (TILE + 2) + TILE + 1 } : tc \in 0 .. 2 }
GapCells == { k \in Cells : RowOf(k) \in GapRows \/ ColOf(k) \in GapCols }
InteriorCells ==
  { ExpandedAt(tr, tc, r, c) : tr \in TileRows, tc \in TileCols,
                               r \in Interior, c \in Interior }

\* C13: after embiggen every cell of the inserted rows and columns, and every
\* cell that is not the image of an interior pixel, holds 0xFFFFFFFF (the
\* function writes no split values), on every call and whatever the output
\* buffer held before.
C13_SentinelBackground ==
  FrameDone =>
    /\ \A k \in GapCells : output[k] = MaxU32
    /\ \A k \in Cells \ InteriorCells : output[k] = MaxU32

\* C13 happens: the frame expanded is not the first of its file, so the
\* buffer held the image of the frame before, and that image differs in an
\* interior cell from the one written now.
C13_Witness ==
  /\ FrameDone
  /\ i > skip + 1
  /\ OutputIndex(i - 2, skip, offset) \in DOMAIN written
  /\ \E k \in InteriorCells :
       /\ output[k] # MaxU32
       /\ written[OutputIndex(i - 2, skip, offset)][k] # output[k]


\* The boundary pixels of a tile, and the cells of the expanded image a pixel
\* is documented to go to: its own cell and, for a first or a last row or
\* column of a tile, the inserted cell next to it on the outside (where the
\* image has one).
TileLocal == 0 .. (TILE - 1)
Edge == { 0, TILE - 1 }
LineCells(t, x, limit) ==
  LET base == t * (TILE + 2) + x
  IN (IF x = 0 THEN { base - 1, base }
      ELSE IF x = TILE - 1 THEN { base, base + 1 }
      ELSE { base }) \cap (0 .. (limit - 1))
SplitCells(tr, tc, r, c) ==
  { At(y, x, EX) : y \in LineCells(tr, r, EY), x \in LineCells(tc, c, EX) }

\* C15: a boundary pixel of the compact image that holds 0xFFFFFFFF is not
\* halved: every cell of the expanded image it goes to holds 0xFFFFFFFF.
C15_SentinelNotHalved ==
  FrameDone =>
    \A tr \in TileRows : \A tc \in TileCols : \A r \in TileLocal : \A c \in TileLocal :
      (r \in Edge \/ c \in Edge) /\ scratch[CompactAt(tr, tc, r, c)] = MaxU32 =>
        \A k \in SplitCells(tr, tc, r, c) : output[k] = MaxU32

\* C15 happens: a frame is expanded in which a pixel of a tile's last column
\* and a pixel of a tile's first row, each with an inserted cell beside it,
\* hold the sentinel, next to boundary pixels that hold counts.
C15_Witness ==
  /\ FrameDone
  /\ \E tr \in TileRows : \E tc \in 0 .. 2 : \E r \in Interior :
       scratch[CompactAt(tr, tc, r, TILE - 1)] = MaxU32
  /\ \E tc \in TileCols : \E c \in Interior :
       scratch[CompactAt(1, tc, 0, c)] = MaxU32
  /\ \E tr \in TileRows : \E tc \in TileCols : \E r \in Edge : \E c \in TileLocal :
       scratch[CompactAt(tr, tc, r, c)] # MaxU32


\* the number of frames work() writes for data file argv[jj], and for all the
\* data files before argv[jj]
FramesWritten(jj) ==
  IF FramesIn(FileOf(jj)) > SkipOf(jj) THEN FramesIn(FileOf(jj)) - SkipOf(jj) ELSE 0
RECURSIVE WrittenBefore(_)
WrittenBefore(jj) ==
  IF jj <= 3 THEN 0 ELSE WrittenBefore(jj - 1) + FramesWritten(jj - 1)

\* C18: frame i of data file argv[j] is written under the index
\* i - skip + offset, where skip is 2 * PedFrames for the first data file and
\* 0 for a later one and offset is the number of frames written for the data
\* files before argv[j]; so the frames keep their order within and across
\* files.
C18_IndexCountsFramesBefore ==
  FrameDone =>
    LET idx == (i - 1) - SkipOf(j) + WrittenBefore(j)
    IN /\ skip = SkipOf(j)
       /\ idx \in DOMAIN written
       /\ written[idx] = output


\* C19: the gain maps, the pedestals and the mask are written by setup() and
\* pedestal() only: from the return of pedestal() on, that is in every step
\* of work() and embiggen() for every frame of every data file, the seven
\* arrays stay as they are.
C19_CalibrationReadOnly ==
  [][Calibrated => UNCHANGED <<g0, g1, g2, p0, p1, p2, mask>>]_vars

\* C19 happens: the second data file is being corrected, after frames of the
\* first, with a mask that has both values and pedestals that are not zero.
C19_Witness ==
  /\ FrameDone
  /\ j > 3
  /\ offset > 0
  /\ i > skip + 1
  /\ \E p \in Pix : mask[p] = 0
  /\ \E p \in Pix : mask[p] = 1 /\ p0[p][1] > 0


\* What the raw samples of frame k of data file f and the calibration state
\* (gain maps, pedestals, mask, energy) give for cell c of the expanded image:
\* nothing else enters.
CountOf(f, k, p) ==
  LET m == ModeOf(RawOf(f, k, p))
      ped == PedTable(TableOf(m))[p]
      gain == GainTable(TableOf(m))[p]
  IN IF mask[p] = 0 THEN MaxU32
     ELSE DoubleToU32(AdcOf(RawOf(f, k, p)) * ped[2] - ped[1], ped[2], gain,
                      energy_keV, build)
ImageOf(f, k) ==
  [c \in Cells |->
     IF c \in InteriorCells
       THEN LET tr == RowOf(c) \div (TILE + 2)
                tc == ColOf(c) \div (TILE + 2)
                r == RowOf(c) % (TILE + 2)
                cc == ColOf(c) % (TILE + 2)
            IN CountOf(f, k, CompactAt(tr, tc, r, cc))
       ELSE MaxU32]

\* C20: the image work() writes for a frame is a function of the frame's raw
\* samples and the calibration state alone: whatever frames were processed
\* before it in the reused buffers, every frame written so far of the file
\* being processed is the image ImageOf gives for its samples.
C20_ImageOfFrameAlone ==
  FrameDone =>
    \A k \in skip .. (i - 1) :
      /\ OutputIndex(k, skip, offset) \in DOMAIN written
      /\ written[OutputIndex(k, skip, offset)] = ImageOf(FileOf(j), k)

\* C20 happens: a frame has been written after a frame of different samples,
\* and the same samples were written earlier, first into fresh buffers, as
\* the same image.
C20_Witness ==
  /\ FrameDone
  /\ i > skip + 2
  /\ FileOf(j).frames[i] = FileOf(j).frames[skip + 1]
  /\ FileOf(j).frames[i] # FileOf(j).frames[i - 1]
  /\ written[OutputIndex(i - 1, skip, offset)] = written[OutputIndex(skip, skip, offset)]
  /\ written[OutputIndex(i - 1, skip, offset)] # written[OutputIndex(i - 2, skip, offset)]
  /\ \E p \in InteriorPix : mask[p] = 0


\* --------------------------------------------- the test pattern, expanded
\* a test pattern program has returned from its embiggen
Expanded == tpc \in { "fwrite", "exit0" }
\* the boundary pixels of the tiles that have an inserted cell beside them,
\* as <<tr, tc, r, c>>, and the corner pixels among them with three
SplitPixels ==
  { t \in TileRows \X TileCols \X TileLocal \X TileLocal :
      /\ t[3] \in Edge \/ t[4] \in Edge
      /\ Cardinality(SplitCells(t[1], t[2], t[3], t[4])) >= 2 }
CornerPixels ==
  { t \in SplitPixels : Cardinality(SplitCells(t[1], t[2], t[3], t[4])) = 4 }
RECURSIVE SumOver(_, _)
SumOver(a, S) ==
  IF S = {} THEN 0
  ELSE LET k == CHOOSE x \in S : TRUE IN a[k] + SumOver(a, S \ {k})

\* C14: conservation of counts: for a compact image without the sentinel,
\* the cells every boundary pixel is split into (two, four at a corner) hold
\* values that add up to the pixel's value.
C14_SplitConservesCounts ==
  Expanded =>
    \A t \in SplitPixels :
      SumOver(tp_out, SplitCells(t[1], t[2], t[3], t[4]))
        = tp_in[CompactAt(t[1], t[2], t[3], t[4])]

\* C16: a corner pixel of a tile is split by column and then by row, so each
\* of its four cells holds a quarter of its value.
C16_CornerQuarters ==
  Expanded =>
    \A t \in CornerPixels : \A k \in SplitCells(t[1], t[2], t[3], t[4]) :
      tp_out[k] = (tp_in[CompactAt(t[1], t[2], t[3], t[4])] \div 2) \div 2

\* C17: the test pattern of setup() (ones, doubled along the rows and
\* columns where tiles meet) expands to 1 in every cell an interior pixel
\* goes to and to 1, not 2, in both cells of every doubled boundary pixel
\* that is not a corner.
C17_PatternExpandsToOnes ==
  Expanded =>
    /\ \A k \in InteriorCells : tp_out[k] = 1
    /\ \A t \in SplitPixels \ CornerPixels :
         tp_in[CompactAt(t[1], t[2], t[3], t[4])] = 2 =>
           \A k \in SplitCells(t[1], t[2], t[3], t[4]) : tp_out[k] = 1


\* the samples of frame k of the first data file, as an array
FrameOf(k) == [p \in Pix |-> RawOf(FirstFile, k, p)]
\* pedestal() is about to read a frame in its low, medium or high gain loop
Reading(run) == pc = run /\ i < PedFrames

\* C21: pedestal() reads the first data file in order as three consecutive
\* runs of PedFrames frames that do not overlap: step i of the low gain loop
\* reads frame i and changes p2 only, step i of the medium gain loop reads
\* frame PedFrames + i and changes p1 only, step i of the high gain loop
\* reads frame 2 * PedFrames + i and changes p0 and the mask only.
C21_ThreeRunsInOrder ==
  [][DarkRunsComplete =>
       /\ Reading("ped_low") =>
            /\ pixels' = FrameOf(i)
            /\ \A p \in Pix : p2'[p] = RatAddInt(p2[p], AdcOf(FrameOf(i)[p]))
            /\ UNCHANGED <<p0, p1, mask>>
       /\ Reading("ped_med") =>
            /\ pixels' = FrameOf(PedFrames + i)
            /\ \A p \in Pix :
                 p1'[p] = RatAddInt(p1[p], AdcOf(FrameOf(PedFrames + i)[p]))
            /\ UNCHANGED <<p0, p2, mask>>
       /\ Reading("ped_high") =>
            /\ pixels' = FrameOf(2 * PedFrames + i)
            /\ \A p \in Pix :
                 ModeOf(FrameOf(2 * PedFrames + i)[p]) # 0 => mask'[p] = 0
            /\ UNCHANGED <<p1, p2>>]_vars

\* C21 happens: pedestal() has returned from three runs of which each begins
\* with a frame unlike the first frame of the run before, so that reading a
\* run twice or out of order would show.
C21_Witness ==
  /\ Calibrated
  /\ DarkRunsComplete
  /\ FirstFile.frames[PedFrames + 1] # FirstFile.frames[1]
  /\ FirstFile.frames[2 * PedFrames + 1] # FirstFile.frames[PedFrames + 1]
  /\ \E p \in Pix : ~RatEq(p1[p], p2[p])
  /\ \E p \in Pix : mask[p] = 0


\* the revision with the edge copies has returned from its embiggen
EdgesExpanded == Expanded /\ prog = "edge revision"

\* C22: the edge revision's embiggen copies compact rows 0 and NY - 1
\* unchanged, for the tile-local columns c in 1 .. TILE - 2 of each tile
\* column tc, to expanded rows 0 and EY - 1 at column tc * (TILE + 2) + c,
\* from compact column tc * TILE + c.
C22_EdgeRowsCopied ==
  EdgesExpanded =>
    \A tc \in TileCols : \A c \in Interior :
      /\ tp_out[At(0, tc * (TILE + 2) + c, EX)] = tp_in[At(0, tc * TILE + c, NX)]
      /\ tp_out[At(EY - 1, tc * (TILE + 2) + c, EX)]
           = tp_in[At(NY - 1, tc * TILE + c, NX)]

\* the expanded row the interior copy gives compact row r
ExpandedRow(r) == IF r < TILE THEN r ELSE r + 2

\* C23: the edge revision's embiggen copies compact columns 0 and NX - 1
\* unchanged, for every compact row but the doubled rows TILE - 1 and TILE,
\* to expanded columns 0 and EX - 1 at the expanded row the interior copy
\* gives that row (r above the doubled rows, r + 2 below them).
C23_EdgeColumnsCopied ==
  EdgesExpanded =>
    \A r \in (0 .. (NY - 1)) \ { TILE - 1, TILE } :
      /\ tp_out[At(ExpandedRow(r), 0, EX)] = tp_in[At(r, 0, NX)]
      /\ tp_out[At(ExpandedRow(r), EX - 1, EX)] = tp_in[At(r, NX - 1, NX)]

\* the assignments of the embiggen of the program that runs
WritesOf(pr) ==
  IF pr = "edge revision" THEN EmbiggenWrites \cup EdgeWrites ELSE EmbiggenWrites

\* C24: every embiggen stays in bounds in every loop iteration: each index
\* it reads lies in the compact input, each index it writes in the expanded
\* output, and so no call ends the process.
C24_EmbiggenInBounds ==
  /\ tpc # "crash"
  /\ tpc \in { "clear", "fwrite", "exit0" } =>
       \A w \in WritesOf(prog) : w[1] \in DOMAIN tp_out /\ w[2] \in DOMAIN tp_in


\* C25: whenever main is between two data files, inside one, or done, its
\* offset is the number of frames written for the data files before argv[j]
\* and is not negative, and the indices written so far are 0, 1, 2, ...
\* without a gap.
C25_OffsetCountsFrames ==
  Calibrated =>
    /\ offset >= 0
    /\ offset = WrittenBefore(j)
    /\ DOMAIN written = 0 .. (Cardinality(DOMAIN written) - 1)


\* C26: no frame that pedestal() consumed (frames 0 .. 3 * PedFrames - 1 of
\* the first data file) is corrected and written out by work(): the frames
\* it processes of the first data file come after the three runs.
C26_NoDarkFrameWritten ==
  (FrameDone /\ j = 3) => i - 1 >= 3 * PedFrames

\* C26, amended: work() leaves out the two forced runs only.  No frame
\* 0 .. 2 * PedFrames - 1 of the first data file is corrected; every later
\* frame k of it, the high gain run that pedestal() consumed included, is
\* written under index k - 2 * PedFrames, so the first output frame of a run
\* is the first frame of the high gain run.
C26_ForcedRunsSkippedOnly ==
  /\ (FrameDone /\ j = 3) => i - 1 >= 2 * PedFrames
  /\ (Calibrated /\ j > 3) =>
       \A k \in (2 * PedFrames) .. (FramesIn(FirstFile) - 1) :
         /\ k - 2 * PedFrames \in DOMAIN written
         /\ written[k - 2 * PedFrames] = ImageOf(FirstFile, k)

\* C26 happens: the first data file held the three runs and a frame after
\* them, work() has returned from it, and the file written first is the
\* image of the first frame of the high gain run, unlike the image of the
\* first frame after the runs.
C26_Witness ==
  /\ Calibrated
  /\ j > 3
  /\ FramesIn(FirstFile) > 3 * PedFrames
  /\ 0 \in DOMAIN written /\ PedFrames \in DOMAIN written
  /\ written[0] = ImageOf(FirstFile, 2 * PedFrames)
  /\ written[0] # ImageOf(FirstFile, 3 * PedFrames)

==========================================================================
